---- MODULE Spec2Model ----
(***************************************************************************)
(* Capacity Scout (CapacityScout_Qt.py): the location registry, the size   *)
(* probe, the timer-driven recording of one capacity row per location and  *)
(* day, and the batched commit of the SQLite connection.                   *)
(*                                                                         *)
(* The program is a single-threaded Qt application.  Every handler runs to *)
(* completion on the event loop, except where it opens a modal dialog      *)
(* (QDialog.exec, QMessageBox.question/warning): the dialog runs a nested  *)
(* event loop in which the four timers keep firing while the handler waits.*)
(* add_location touches no state before its dialogs return, so it is one   *)
(* step; remove_location reads the id to remove before its question box,   *)
(* so it is two steps with timer handlers free to run in between.          *)
(* The SQLite connection is opened in Python's default transaction mode:   *)
(* INSERT/DELETE statements open a transaction implicitly and only         *)
(* conn.commit() makes it durable, so the connection's view (db) and the   *)
(* file content that survives the process (disk) are separate states.      *)
(***************************************************************************)
EXTENDS Integers, Sequences, FiniteSets, TLC

\* ------------------------------------------------------------------ bounds
MaxDay == 3            \* calendar days are 1..MaxDay (ISO dates, in order)
MaxId == 2             \* AUTOINCREMENT of locations stops here
MaxSeries == 3         \* rows of a series given to filtered_stats
MaxLoad == 4           \* ids allocated plus days begun: two locations are
                       \* followed over two days, one location over three
FairLoad == 3          \* the same, for the behaviours checked for liveness
Sizes == {1, 2}        \* bytes used that a reachable path can report
Names == {"", "a"}               \* name field of the add dialog, stripped
Paths == {"", "/p"}              \* path field of the add dialog, stripped
Kinds == {"Disk", "Folder"}

VARIABLES
    running,    \* a MonitorWindow process is alive
    db,         \* Database.conn as the process sees it (uncommitted included)
    disk,       \* committed content of capacity.db
    dirty,      \* Database.dirty
    locations,  \* MonitorWindow.locations, a dict in insertion order
    pending,    \* location_id remove_location read before its question box
                \* (0: no question box is open)
    today,      \* date.today()
    lastOp,     \* history: what the last handler ran ("session":
                \* update_today_stats(True), "daily": check_daily_record,
                \* "remove_none": remove_location without a selection,
                \* "clean": commit_if_dirty that found dirty False,
                \* "commit": commit_if_dirty whose conn.commit() returned,
                \* "commit_raised": commit_if_dirty whose conn.commit()
                \* raised, "start_aborted": MonitorWindow() that raised,
                \* "none": anything else)
    message,    \* history: the message box the last handler showed
    written,    \* history: location ids the last handler recorded a row for
    failed,     \* history: location ids whose probe raised in that handler
    shown,      \* the last call of filtered_stats: the rows it was given,
                \* filter_combo, filter_date and the rows it returned (the
                \* chart is followed in SliceSpec only: the handlers of Spec
                \* leave it alone)
    inflight    \* where the daily check and the session update are inside
                \* update_today_stats (RecordSpec follows them statement by
                \* statement; in Spec a handler is one step and both are idle)

vars == <<running, db, disk, dirty, locations, pending, today,
          lastOp, message, written, failed, shown, inflight>>

\* ------------------------------------------------------------ the database
EmptyDb == [locations |-> {}, daily_stats |-> {}, seq |-> 0]

LocationIds(d) == {l.location_id : l \in d.locations}

StatsOf(d, location_id) == {r \in d.daily_stats : r.location_id = location_id}

\* Database.add_location: INSERT INTO locations; the new row id is returned.
AddLocationId(d) == d.seq + 1

DbAddLocation(d, name, path, kind) ==
    [d EXCEPT !.locations = @ \cup {[location_id |-> AddLocationId(d),
                                     name |-> name, path |-> path, kind |-> kind]},
              !.seq = AddLocationId(d)]

\* Database.remove_location: the two DELETE statements, in one transaction.
DbRemoveLocationNoStats(d, location_id) ==
    [d EXCEPT !.locations = {l \in @ : l.location_id # location_id}]

DbRemoveLocation(d, location_id) ==
    [d EXCEPT !.daily_stats = {r \in @ : r.location_id # location_id},
              !.locations = {l \in @ : l.location_id # location_id}]

\* `self.dirty = True`, the last statement of add_location, remove_location
\* and insert_daily_stat.
MarkDirtyForgotten(dflag) == dflag

MarkDirty(dflag) == TRUE

\* Database.stat_for_day: fetchone() of the exact match; {} stands for None.
StatForDay(d, location_id, day) ==
    LET rows == {r \in StatsOf(d, location_id) : r.day = day}
    IN IF rows = {} THEN {} ELSE {CHOOSE r \in rows : TRUE}

\* Database.last_stat_before_day: day < ? ORDER BY day DESC LIMIT 1.
LastStatEarliest(d, location_id, day) ==
    LET rows == {r \in StatsOf(d, location_id) : r.day < day}
    IN IF rows = {} THEN {}
       ELSE {CHOOSE r \in rows : \A q \in rows : r.day <= q.day}

LastStatUpToDay(d, location_id, day) ==
    LET rows == {r \in StatsOf(d, location_id) : r.day <= day}
    IN IF rows = {} THEN {}
       ELSE {CHOOSE r \in rows : \A q \in rows : q.day <= r.day}

LastStatBeforeDay(d, location_id, day) ==
    LET rows == {r \in StatsOf(d, location_id) : r.day < day}
    IN IF rows = {} THEN {}
       ELSE {CHOOSE r \in rows : \A q \in rows : q.day <= r.day}

\* Database.insert_daily_stat: INSERT OR REPLACE under UNIQUE(location_id, day)
\* deletes the conflicting row and inserts the new one.
InsertDailyStatNoReplace(d, location_id, day, capacity_bytes, delta_bytes) ==
    [d EXCEPT !.daily_stats = @ \cup
        {[location_id |-> location_id, day |-> day,
          capacity_bytes |-> capacity_bytes, delta_bytes |-> delta_bytes]}]

InsertDailyStatPerLocation(d, location_id, day, capacity_bytes, delta_bytes) ==
    [d EXCEPT !.daily_stats =
        {r \in @ : r.location_id # location_id} \cup
        {[location_id |-> location_id, day |-> day,
          capacity_bytes |-> capacity_bytes, delta_bytes |-> delta_bytes]}]

InsertDailyStat(d, location_id, day, capacity_bytes, delta_bytes) ==
    [d EXCEPT !.daily_stats =
        {r \in @ : ~(r.location_id = location_id /\ r.day = day)} \cup
        {[location_id |-> location_id, day |-> day,
          capacity_bytes |-> capacity_bytes, delta_bytes |-> delta_bytes]}]

\* ---------------------------------------------------------------- the probe
\* What a probe finds at the root path at the moment it runs: the path is
\* missing or unreadable, or it is there with so many bytes used.  The file
\* system is outside the program, so every probe draws it anew.
FsStates == {[exists |-> FALSE, used |-> 0]} \cup
            {[exists |-> TRUE, used |-> s] : s \in Sizes}

\* A probe returns a byte count or raises OSError.
Returned(v) == [raised |-> FALSE, value |-> v]
Raised == [raised |-> TRUE, value |-> 0]

\* LocationSize.disk_usage: shutil.disk_usage raises on a path it cannot stat.
DiskUsage(found) == IF found.exists THEN Returned(found.used) ELSE Raised

\* LocationSize.folder_size: os.walk is called without onerror, so a root it
\* cannot list yields nothing and the sum stays 0.
FolderSize(found) == IF found.exists THEN Returned(found.used) ELSE Returned(0)

\* LocationSize.compute
Compute(found, kind) == IF kind = "Disk" THEN DiskUsage(found) ELSE FolderSize(found)

\* -------------------------------------------------------- update_today_stats
\* `if existing and not force_update: continue`
SkipExistingInverted(existing, force_update) == ~existing /\ ~force_update

SkipExistingNever(existing, force_update) == FALSE

SkipExisting(existing, force_update) == existing /\ ~force_update

\* `except (OSError, FileNotFoundError): continue`: the loop goes on with the
\* remaining locations.
AfterProbeErrorBreak(rest) == <<>>

AfterProbeError(rest) == rest

\* The loop of update_today_stats over self.locations.values(); st carries the
\* connection's view, Database.dirty and the ids recorded so far.
RECURSIVE UpdateLoop(_, _, _, _, _)
UpdateLoop(locs, st, day, force_update, probe) ==
    IF locs = <<>> THEN st
    ELSE
      LET location == Head(locs)
          id == location.location_id
          existing == StatForDay(st.db, id, day)
      IN IF SkipExisting(existing # {}, force_update)
         THEN UpdateLoop(Tail(locs), st, day, force_update, probe)
         ELSE
           LET size == Compute(probe[id], location.kind)
           IN IF size.raised
              THEN UpdateLoop(AfterProbeError(Tail(locs)),
                              [st EXCEPT !.failed = @ \cup {id}],
                              day, force_update, probe)
              ELSE
                LET previous == LastStatBeforeDay(st.db, id, day)
                    delta == IF previous # {}
                             THEN size.value - (CHOOSE r \in previous : TRUE).capacity_bytes
                             ELSE 0
                IN UpdateLoop(Tail(locs),
                              [db |-> InsertDailyStat(st.db, id, day, size.value, delta),
                               dirty |-> MarkDirty(st.dirty),
                               written |-> st.written \cup {id},
                               failed |-> st.failed],
                              day, force_update, probe)

UpdateTodayStats(locs, d, dflag, force_update, probe) ==
    UpdateLoop(locs, [db |-> d, dirty |-> dflag, written |-> {}, failed |-> {}],
               today, force_update, probe)

\* MonitorWindow.check_daily_record
CheckDailyRecord(locs, d, dflag, probe) == UpdateTodayStats(locs, d, dflag, FALSE, probe)

\* MonitorWindow.poll_locations: the readings go to the status label only;
\* with no location it returns before the daily check.
PollLocations(locs, d, dflag, probe) ==
    IF locs = <<>> THEN [db |-> d, dirty |-> dflag, written |-> {}, failed |-> {}]
    ELSE CheckDailyRecord(locs, d, dflag, probe)

\* the ids of self.locations, and what the probes of one handler may find
Keys(locs) == {locs[i].location_id : i \in DOMAIN locs}
Probes(locs) == [Keys(locs) -> FsStates]

\* ------------------------------------------------------------ the calendar
\* datetime.date: year, month and day; dates compare as these triples do.
Date(year, month, day) == [year |-> year, month |-> month, day |-> day]

DateLeq(a, b) ==
    \/ a.year < b.year
    \/ a.year = b.year /\ a.month < b.month
    \/ a.year = b.year /\ a.month = b.month /\ a.day <= b.day

IsLeap(year) == year % 4 = 0 /\ (year % 100 # 0 \/ year % 400 = 0)

DaysInMonth(year, month) ==
    IF month = 2 THEN (IF IsLeap(year) THEN 29 ELSE 28)
    ELSE IF month \in {4, 6, 9, 11} THEN 30 ELSE 31

DaysBeforeYear(year) ==
    (year - 1) * 365 + (year - 1) \div 4 - (year - 1) \div 100 + (year - 1) \div 400

RECURSIVE DaysBeforeMonth(_, _)
DaysBeforeMonth(year, month) ==
    IF month = 1 THEN 0
    ELSE DaysBeforeMonth(year, month - 1) + DaysInMonth(year, month - 1)

\* date.toordinal(): 1 is 0001-01-01
ToOrdinal(d) == DaysBeforeYear(d.year) + DaysBeforeMonth(d.year, d.month) + d.day

\* date.fromordinal(n), for the years the model's dates lie in
Years == 2023..2025

FromOrdinal(n) ==
    LET year == CHOOSE y \in Years : DaysBeforeYear(y) < n /\ n <= DaysBeforeYear(y + 1)
        rest == n - DaysBeforeYear(year)
        month == CHOOSE m \in 1..12 :
                    /\ DaysBeforeMonth(year, m) < rest
                    /\ rest <= DaysBeforeMonth(year, m) + DaysInMonth(year, m)
    IN Date(year, month, rest - DaysBeforeMonth(year, month))

\* date + timedelta(days)
PlusDays(d, days) == FromOrdinal(ToOrdinal(d) + days)

\* date.weekday(): Monday is 0
Weekday(d) == (ToOrdinal(d) + 6) % 7

\* The text of a day as the store holds it, "YYYY-MM-DD", is a sequence of
\* characters.
Chars == <<"0", "1", "2", "3", "4", "5", "6", "7", "8", "9">>

Char(n) == Chars[n + 1]

DigitOf(c) == CHOOSE n \in 0..9 : Chars[n + 1] = c

\* date.isoformat()
IsoFormat(d) ==
    <<Char(d.year \div 1000), Char((d.year \div 100) % 10), Char((d.year \div 10) % 10),
      Char(d.year % 10), "-", Char(d.month \div 10), Char(d.month % 10), "-",
      Char(d.day \div 10), Char(d.day % 10)>>

\* datetime.strptime(text, "%Y-%m-%d").date()
Strptime(text) ==
    Date(DigitOf(text[1]) * 1000 + DigitOf(text[2]) * 100 + DigitOf(text[3]) * 10
           + DigitOf(text[4]),
         DigitOf(text[6]) * 10 + DigitOf(text[7]),
         DigitOf(text[9]) * 10 + DigitOf(text[10]))

\* ------------------------------------------------------------ filtered_stats
\* the entries of filter_combo: "Vše", "Týden", "Měsíc", "Rok"
Periods == {"Vse", "Tyden", "Mesic", "Rok"}

\* `start = selected - timedelta(days=selected.weekday())`
WeekStartSunday(selected) == PlusDays(selected, 0 - ((Weekday(selected) + 1) % 7))

WeekStart(selected) == PlusDays(selected, 0 - Weekday(selected))

\* start and end of the period around the selected date
Bounds(period, selected) ==
    IF period = "Tyden"
    THEN [start |-> WeekStart(selected), end |-> PlusDays(WeekStart(selected), 6)]
    ELSE IF period = "Mesic"
    THEN [start |-> Date(selected.year, selected.month, 1),
          end |-> IF selected.month = 12
                  THEN Date(selected.year, 12, 31)
                  ELSE PlusDays(Date(selected.year, selected.month + 1, 1), 0 - 1)]
    ELSE [start |-> Date(selected.year, 1, 1), end |-> Date(selected.year, 12, 31)]

\* `filtered.append(row)`
PrependRow(filtered, row) == <<row>> \o filtered

AppendRow(filtered, row) == Append(filtered, row)

\* the loop over stats: `if start <= row_date <= end`
RECURSIVE FilterLoop(_, _, _, _)
FilterLoop(stats, filtered, start, end) ==
    IF stats = <<>> THEN filtered
    ELSE LET row == Head(stats)
             row_date == Strptime(row.day)
         IN FilterLoop(Tail(stats),
                       IF DateLeq(start, row_date) /\ DateLeq(row_date, end)
                       THEN AppendRow(filtered, row) ELSE filtered,
                       start, end)

\* MonitorWindow.filtered_stats
FilteredStats(stats, period, selected) ==
    IF period = "Vse" THEN stats
    ELSE FilterLoop(stats, <<>>, Bounds(period, selected).start,
                    Bounds(period, selected).end)

\* the call of filtered_stats made by refresh_chart
Shown(stats, period, selected) ==
    [stats |-> stats, period |-> period, selected |-> selected,
     filtered |-> FilteredStats(stats, period, selected)]

\* the days the model's series and filter_date are drawn from: the ends of a
\* week, of months (one of them February of a leap year) and of years
SampleDates ==
    {Date(2023, 12, 31), Date(2024, 1, 1), Date(2024, 2, 29), Date(2024, 3, 1),
     Date(2024, 3, 10), Date(2024, 3, 11), Date(2024, 3, 14), Date(2024, 3, 17),
     Date(2024, 3, 18), Date(2024, 3, 31), Date(2024, 4, 1), Date(2024, 12, 31),
     Date(2025, 1, 1)}

\* `ORDER BY day` compares the texts; character by character
RECURSIVE TextLess(_, _)
TextLess(a, b) ==
    IF a = <<>> \/ b = <<>> THEN a = <<>> /\ b # <<>>
    ELSE IF Head(a) = Head(b) THEN TextLess(Tail(a), Tail(b))
    ELSE Head(a) # "-" /\ (Head(b) = "-" \/ DigitOf(Head(a)) < DigitOf(Head(b)))

\* Database.stats_for_location: the rows of one location, ORDER BY day; at
\* most one row per day (UNIQUE(location_id, day))
Series ==
    {[i \in DOMAIN days |->
         [day |-> IsoFormat(days[i]), capacity_bytes |-> i, delta_bytes |-> 0]] :
       days \in {s \in UNION {[1..n -> SampleDates] : n \in 0..MaxSeries} :
                   \A i, j \in DOMAIN s :
                      i < j => TextLess(IsoFormat(s[i]), IsoFormat(s[j]))}}

\* before any location is selected refresh_chart does not call filtered_stats
NothingShown == Shown(<<>>, "Vse", Date(2024, 3, 14))

\* ------------------------------------------ update_today_stats in progress
\* the two timers whose slots are update_today_stats (check_daily_record
\* calls it with force_update=False, also at the end of a poll)
TickKinds == {"daily", "session"}

\* a slot that is not running
Idle == [at |-> "idle", day |-> 0, todo |-> <<>>, existing |-> {},
         previous |-> {}, size |-> 0]

NoneInFlight == [kind \in TickKinds |-> Idle]

\* -------------------------------------------------------------------- Init
\* A first start on an empty capacity.db.
Init ==
    /\ running = TRUE
    /\ db = EmptyDb
    /\ disk = EmptyDb
    /\ dirty = FALSE
    /\ locations = <<>>
    /\ pending = 0
    /\ today = 1
    /\ lastOp = "none"
    /\ message = "none"
    /\ written = {}
    /\ failed = {}
    /\ shown = NothingShown
    /\ inflight = NoneInFlight

\* what a handler leaves behind: the store, the flag and the history
Leaves(st, op) ==
    /\ db' = st.db
    /\ dirty' = st.dirty
    /\ written' = st.written
    /\ failed' = st.failed
    /\ lastOp' = op
    /\ message' = "none"

\* a handler that records nothing
Quiet(box) ==
    /\ lastOp' = "none"
    /\ message' = box
    /\ written' = {}
    /\ failed' = {}

\* ----------------------------------------------------------- timer handlers
\* poll_timer.timeout -> poll_locations
PollTickWith(probe) ==
    /\ running
    /\ \E st \in {PollLocations(locations, db, dirty, probe)} : Leaves(st, "daily")
    /\ UNCHANGED <<shown, inflight, running, disk, locations, pending, today>>

PollTick == \E probe \in Probes(locations) : PollTickWith(probe)

\* daily_timer.timeout -> check_daily_record
DailyTickWith(probe) ==
    /\ running
    /\ \E st \in {CheckDailyRecord(locations, db, dirty, probe)} : Leaves(st, "daily")
    /\ UNCHANGED <<shown, inflight, running, disk, locations, pending, today>>

DailyTick == \E probe \in Probes(locations) : DailyTickWith(probe)

\* session_timer.timeout -> update_today_stats(force_update=True)
SessionTickWith(probe) ==
    /\ running
    /\ \E st \in {UpdateTodayStats(locations, db, dirty, TRUE, probe)} :
          Leaves(st, "session")
    /\ UNCHANGED <<shown, inflight, running, disk, locations, pending, today>>

SessionTick == \E probe \in Probes(locations) : SessionTickWith(probe)

\* Database.commit_if_dirty; commit_ok is whether conn.commit() returns
\* (TRUE) or raises (FALSE), and the result is <<disk, dirty>> afterwards.
CommitIfDirtyKeepsFlag(d, file, dflag, commit_ok) ==
    IF dflag
    THEN IF commit_ok THEN <<d, dflag>> ELSE <<file, dflag>>
    ELSE <<file, dflag>>

CommitIfDirty(d, file, dflag, commit_ok) ==
    IF dflag
    THEN IF commit_ok THEN <<d, FALSE>> ELSE <<file, dflag>>
    ELSE <<file, dflag>>

\* how that call of commit_if_dirty ended
CommitOutcome(dflag, commit_ok) ==
    IF ~dflag THEN "clean" ELSE IF commit_ok THEN "commit" ELSE "commit_raised"

\* a handler that is one call of commit_if_dirty
Committed(commit_ok) ==
    /\ lastOp' = CommitOutcome(dirty, commit_ok)
    /\ message' = "none"
    /\ written' = {}
    /\ failed' = {}

\* db_timer.timeout -> db.commit_if_dirty; an exception that leaves the slot
\* is printed and the event loop goes on.
FlushTickWith(commit_ok) ==
    /\ running
    /\ disk' = CommitIfDirty(db, disk, dirty, commit_ok)[1]
    /\ dirty' = CommitIfDirty(db, disk, dirty, commit_ok)[2]
    /\ Committed(commit_ok)
    /\ UNCHANGED <<shown, inflight, running, db, locations, pending, today>>

FlushTick == \E commit_ok \in BOOLEAN : FlushTickWith(commit_ok)

\* ------------------------------------------------------------- GUI handlers
Location(location_id, name, path, kind) ==
    [location_id |-> location_id, name |-> name, path |-> path, kind |-> kind]

\* add_location: dialog.exec() returns Rejected
AddCancel ==
    /\ running
    /\ pending = 0
    /\ Quiet("none")
    /\ UNCHANGED <<shown, inflight, running, db, disk, dirty, locations, pending, today>>

\* `if not name or not path`
AddRejectsNothing(name, path) == FALSE

AddRejects(name, path) == name = "" \/ path = ""

\* add_location: dialog.exec() returns Accepted with an empty name or path:
\* QMessageBox.warning, then return.
AddInvalid ==
    /\ running
    /\ pending = 0
    /\ \E name \in Names, path \in Paths, kind \in Kinds : AddRejects(name, path)
    /\ Quiet("warning")
    /\ UNCHANGED <<shown, inflight, running, db, disk, dirty, locations, pending, today>>

\* add_location: dialog.exec() returns Accepted: db.add_location, the dict
\* entry, populate_locations and the inline poll_locations().
AddAcceptWith(load, name, path, kind, probe) ==
    /\ running
    /\ pending = 0
    /\ db.seq < MaxId
    /\ db.seq + 1 + today <= load
    /\ ~AddRejects(name, path)
    /\ LET location_id == AddLocationId(db)
           locs == Append(locations, Location(location_id, name, path, kind))
       IN /\ probe \in Probes(locs)
          /\ locations' = locs
          /\ \E st \in {PollLocations(locs, DbAddLocation(db, name, path, kind),
                                      MarkDirty(dirty), probe)} : Leaves(st, "daily")
    /\ UNCHANGED <<shown, inflight, running, disk, pending, today>>

AddAccept(load) ==
    \E name \in Names, path \in Paths, kind \in Kinds :
      \E probe \in [1..MaxId -> FsStates] :
        AddAcceptWith(load, name, path, kind,
                      [id \in Keys(locations) \cup {AddLocationId(db)} |-> probe[id]])

\* remove_location with an empty combo box: currentData() is None.
RemoveNoSelection ==
    /\ running
    /\ pending = 0
    /\ locations = <<>>
    /\ lastOp' = "remove_none"
    /\ message' = "none"
    /\ written' = {}
    /\ failed' = {}
    /\ UNCHANGED <<shown, inflight, running, db, disk, dirty, locations, pending, today>>

\* remove_location up to QMessageBox.question; a combo box that is not empty
\* always has a current entry, the one the user selected.
RemoveAsk ==
    /\ running
    /\ pending = 0
    /\ \E i \in 1..Len(locations) : pending' = locations[i].location_id
    /\ Quiet("none")
    /\ UNCHANGED <<shown, inflight, running, db, disk, dirty, locations, today>>

\* remove_location: the answer is not Yes
RemoveNo ==
    /\ running
    /\ pending # 0
    /\ pending' = 0
    /\ Quiet("none")
    /\ UNCHANGED <<shown, inflight, running, db, disk, dirty, locations, today>>

\* self.locations.pop(location_id, None)
PopKeepsLocation(locs, location_id) == locs

PopAll(locs, location_id) == <<>>

Pop(locs, location_id) == SelectSeq(locs, LAMBDA l : l.location_id # location_id)

\* remove_location: the answer is Yes: db.remove_location, the dict entry,
\* populate_locations, refresh_chart.
RemoveYes ==
    /\ running
    /\ pending # 0
    /\ db' = DbRemoveLocation(db, pending)
    /\ dirty' = MarkDirty(dirty)
    /\ locations' = Pop(locations, pending)
    /\ pending' = 0
    /\ Quiet("none")
    /\ UNCHANGED <<shown, inflight, running, disk, today>>

\* ------------------------------------------------------- process life cycle
\* MonitorWindow.closeEvent: commit_if_dirty, then the window closes and
\* app.exec() returns; what was not committed is rolled back when the
\* connection goes away.  When conn.commit() raises, the exception leaves
\* closeEvent before super().closeEvent(event); the close event stays
\* accepted, so the window closes and the process ends all the same.
CloseWithoutCommit(commit_ok) ==
    /\ running
    /\ pending = 0
    /\ disk' = disk
    /\ db' = disk'
    /\ dirty' = FALSE
    /\ running' = FALSE
    /\ locations' = <<>>
    /\ lastOp' = "clean"
    /\ message' = "none"
    /\ written' = {}
    /\ failed' = {}
    /\ UNCHANGED <<shown, inflight, pending, today>>

CloseEventWith(commit_ok) ==
    /\ running
    /\ pending = 0
    /\ disk' = CommitIfDirty(db, disk, dirty, commit_ok)[1]
    /\ db' = disk'
    /\ dirty' = FALSE
    /\ running' = FALSE
    /\ locations' = <<>>
    /\ Committed(commit_ok)
    /\ UNCHANGED <<shown, inflight, pending, today>>

CloseEvent == \E commit_ok \in BOOLEAN : CloseEventWith(commit_ok)

\* the process dies without closeEvent (kill, power loss)
Crash ==
    /\ running
    /\ running' = FALSE
    /\ db' = disk
    /\ dirty' = FALSE
    /\ locations' = <<>>
    /\ pending' = 0
    /\ Quiet("none")
    /\ UNCHANGED <<shown, inflight, disk, today>>

\* the collation of the name column (BINARY) on the names of the model
NameRank(name) == IF name = "" THEN 0 ELSE 1

\* Database.list_locations: ORDER BY name; rows of equal name come in an
\* order SQLite does not promise.
ListLocations(d) ==
    {s \in [1..Cardinality(d.locations) -> d.locations] :
        /\ \A i, j \in DOMAIN s : i # j => s[i] # s[j]
        /\ \A i, j \in DOMAIN s : i < j => NameRank(s[i].name) <= NameRank(s[j].name)}

\* --------------------------------------------------------------- the config
\* the keys of cs_config.json the timers read
ConfigKeys == {"poll_minutes", "session_update_minutes", "db_flush_minutes"}

\* ConfigManager.__init__: self.data before load()
Defaults ==
    [poll_minutes |-> 10, session_update_minutes |-> 60, db_flush_minutes |-> 60]

\* a JSON value found under a key: a number of minutes, a string, or null
Number(n) == [type |-> "number", value |-> n]
JsonValues == {Number(5), [type |-> "string", value |-> 0],
               [type |-> "null", value |-> 0]}

\* cs_config.json when the process starts: no file, a file json.load cannot
\* parse, or an object that gives values to some of the keys
ConfigFiles ==
    {[state |-> "missing", data |-> <<>>], [state |-> "malformed", data |-> <<>>]} \cup
    {[state |-> "object", data |-> data] :
        data \in UNION {[keys -> JsonValues] : keys \in SUBSET ConfigKeys}}

\* ConfigManager.load: nothing without the file; json.load raises on a file
\* it cannot parse; otherwise the object's keys replace the defaults.
Load(file) ==
    IF file.state = "missing"
    THEN [raised |-> FALSE, data |-> [key \in ConfigKeys |-> Number(Defaults[key])]]
    ELSE IF file.state = "malformed"
    THEN [raised |-> TRUE, data |-> <<>>]
    ELSE [raised |-> FALSE,
          data |-> [key \in ConfigKeys |->
                      IF key \in DOMAIN file.data THEN file.data[key]
                      ELSE Number(Defaults[key])]]

\* timer.start(self.config.data.get(key, default) * 60 * 1000): the product
\* of a string or of None is no int, and QTimer.start raises TypeError (None
\* already raises in the product).
TimerStart(minutes) ==
    IF minutes.type = "number" THEN Returned(minutes.value * 60 * 1000) ELSE Raised

\* MonitorWindow.__init__ does not get to its end
StartupRaises(file) ==
    \/ Load(file).raised
    \/ \E key \in ConfigKeys : TimerStart(Load(file).data[key]).raised

\* main -> MonitorWindow.__init__: ConfigManager(), Database(), the locations
\* dict and the timers; an exception leaves main and the process ends.
StartWith(file) ==
    /\ ~running
    /\ IF StartupRaises(file)
       THEN /\ lastOp' = "start_aborted"
            /\ message' = "none"
            /\ written' = {}
            /\ failed' = {}
            /\ UNCHANGED <<running, locations>>
       ELSE /\ running' = TRUE
            /\ \E s \in ListLocations(db) :
                  locations' = [i \in 1..Len(s) |->
                                  Location(s[i].location_id, s[i].name, s[i].path, s[i].kind)]
            /\ Quiet("none")
    /\ UNCHANGED <<shown, inflight, db, disk, dirty, pending, today>>

Start == \E file \in ConfigFiles : StartWith(file)

\* -------------------------------------------------------------- environment
\* midnight
NextDay(load) ==
    /\ today < MaxDay
    /\ db.seq + today + 1 <= load
    /\ today' = today + 1
    /\ Quiet("none")
    /\ UNCHANGED <<shown, inflight, running, db, disk, dirty, locations, pending>>

Next ==
    \/ PollTick
    \/ DailyTick
    \/ SessionTick
    \/ FlushTick
    \/ AddCancel
    \/ AddInvalid
    \/ AddAccept(MaxLoad)
    \/ RemoveNoSelection
    \/ RemoveAsk
    \/ RemoveNo
    \/ RemoveYes
    \/ CloseEvent
    \/ Crash
    \/ Start
    \/ NextDay(MaxLoad)

\* the same handlers within the smaller bound
NextFair ==
    \/ PollTick
    \/ DailyTick
    \/ SessionTick
    \/ FlushTick
    \/ AddCancel
    \/ AddInvalid
    \/ AddAccept(FairLoad)
    \/ RemoveNoSelection
    \/ RemoveAsk
    \/ RemoveNo
    \/ RemoveYes
    \/ CloseEvent
    \/ Crash
    \/ Start
    \/ NextDay(FairLoad)

Spec == Init /\ [][Next]_vars

\* ------------------------------------------------ filtered_stats on its own
\* The chart of a location whose rows are any series: MonitorWindow.__init__
\* ends with refresh_chart() under the filter "Vše".
SliceInit ==
    /\ running = TRUE
    /\ db = EmptyDb
    /\ disk = EmptyDb
    /\ dirty = FALSE
    /\ locations = <<>>
    /\ pending = 0
    /\ today = 1
    /\ lastOp = "none"
    /\ message = "none"
    /\ written = {}
    /\ failed = {}
    /\ \E stats \in Series : shown = Shown(stats, "Vse", Date(2024, 3, 14))
    /\ inflight = NoneInFlight

\* filter_combo.currentIndexChanged / filter_date.dateChanged -> refresh_chart
\* -> filtered_stats(stats_for_location(location_id))
FilterChanged ==
    /\ running
    /\ \E period \in Periods, selected \in SampleDates :
          shown' = Shown(shown.stats, period, selected)
    /\ UNCHANGED <<running, db, disk, dirty, locations, pending, today,
                   lastOp, message, written, failed, inflight>>

SliceSpec == SliceInit /\ [][FilterChanged]_vars

\* ------------------------------------- update_today_stats, one statement at
\* a time.  Qt delivers a timeout or a click only from the event loop, and
\* update_today_stats neither opens a dialog nor calls processEvents: until
\* it returns no other handler starts.
EventLoopNeverBusy == TRUE

EventLoopIdle == \A kind \in TickKinds : inflight[kind].at = "idle"

\* the timeout is delivered: `today = date.today().isoformat()` and the
\* iteration over self.locations.values() begins
TickEnter(kind) ==
    /\ running
    /\ EventLoopIdle
    /\ inflight[kind].at = "idle"
    /\ inflight' = [inflight EXCEPT ![kind] =
                       [Idle EXCEPT !.at = "loop", !.day = today, !.todo = locations]]
    /\ Quiet("none")
    /\ UNCHANGED <<shown, running, db, disk, dirty, locations, pending, today>>

\* `existing = self.db.stat_for_day(...)` and the skip of a location that has
\* its row
RecordRead(kind) ==
    /\ inflight[kind].at = "loop"
    /\ inflight[kind].todo # <<>>
    /\ LET pos == inflight[kind]
           existing == StatForDay(db, Head(pos.todo).location_id, pos.day)
       IN inflight' = [inflight EXCEPT ![kind] =
             IF SkipExisting(existing # {}, kind = "session")
             THEN [pos EXCEPT !.todo = Tail(pos.todo)]
             ELSE [pos EXCEPT !.at = "probe", !.existing = existing]]
    /\ Quiet("none")
    /\ UNCHANGED <<shown, running, db, disk, dirty, locations, pending, today>>

\* `size = LocationSize.compute(...)`, then either the except clause or
\* `previous = self.db.last_stat_before_day(...)`
RecordProbe(kind) ==
    /\ inflight[kind].at = "probe"
    /\ \E found \in FsStates :
          LET pos == inflight[kind]
              location == Head(pos.todo)
              size == Compute(found, location.kind)
          IN inflight' = [inflight EXCEPT ![kind] =
                IF size.raised
                THEN [pos EXCEPT !.at = "loop", !.todo = AfterProbeError(Tail(pos.todo)),
                                 !.existing = {}]
                ELSE [pos EXCEPT !.at = "write", !.size = size.value,
                                 !.previous = LastStatBeforeDay(db, location.location_id,
                                                                pos.day)]]
    /\ Quiet("none")
    /\ UNCHANGED <<shown, running, db, disk, dirty, locations, pending, today>>

\* the delta against `previous` and `self.db.insert_daily_stat(...)`
RecordWrite(kind) ==
    /\ inflight[kind].at = "write"
    /\ LET pos == inflight[kind]
           delta == IF pos.previous # {}
                    THEN pos.size - (CHOOSE r \in pos.previous : TRUE).capacity_bytes
                    ELSE 0
       IN /\ db' = InsertDailyStat(db, Head(pos.todo).location_id, pos.day,
                                   pos.size, delta)
          /\ inflight' = [inflight EXCEPT ![kind] =
                [Idle EXCEPT !.at = "loop", !.day = pos.day, !.todo = Tail(pos.todo)]]
    /\ dirty' = MarkDirty(dirty)
    /\ Quiet("none")
    /\ UNCHANGED <<shown, running, disk, locations, pending, today>>

\* the loop is over: refresh_chart, and the slot returns to the event loop
TickReturn(kind) ==
    /\ inflight[kind].at = "loop"
    /\ inflight[kind].todo = <<>>
    /\ inflight' = [inflight EXCEPT ![kind] = Idle]
    /\ Quiet("none")
    /\ UNCHANGED <<shown, running, db, disk, dirty, locations, pending, today>>

\* the handlers of the timers, statement by statement, the other handlers as
\* they are delivered by the event loop, and midnight at any moment
NextRecord ==
    \/ \E kind \in TickKinds : TickEnter(kind)
    \/ \E kind \in TickKinds : RecordRead(kind)
    \/ \E kind \in TickKinds : RecordProbe(kind)
    \/ \E kind \in TickKinds : RecordWrite(kind)
    \/ \E kind \in TickKinds : TickReturn(kind)
    \/ EventLoopIdle /\ FlushTick
    \/ EventLoopIdle /\ AddAccept(MaxLoad)
    \/ EventLoopIdle /\ RemoveAsk
    \/ EventLoopIdle /\ RemoveNo
    \/ EventLoopIdle /\ RemoveYes
    \/ NextDay(MaxLoad)

RecordSpec == Init /\ [][NextRecord]_vars

\* ================================================================== claims
LocationIdSpace == 1..MaxId

\* the rows a store holds for one key
RowsFor(d, location_id, day) ==
    {r \in d.daily_stats : r.location_id = location_id /\ r.day = day}

\* the rows of a location recorded for a day before `day`
RowsBefore(d, location_id, day) ==
    {r \in d.daily_stats : r.location_id = location_id /\ r.day < day}

\* the capacities a delta may be taken against: those of the rows with the
\* greatest day before `day`
BaselineCaps(d, location_id, day) ==
    {r.capacity_bytes : r \in {q \in RowsBefore(d, location_id, day) :
                                 \A o \in RowsBefore(d, location_id, day) : o.day <= q.day}}

DeltaAgainst(d, location_id, day, capacity_bytes) ==
    IF RowsBefore(d, location_id, day) = {} THEN {0}
    ELSE {capacity_bytes - b : b \in BaselineCaps(d, location_id, day)}

UniquePerDay(d) ==
    \A r, q \in d.daily_stats :
        (r.location_id = q.location_id /\ r.day = q.day) => r = q

\* C1: the store never holds two rows for one (location_id, day), and a
\* handler that records a key that already had a row leaves exactly one row
\* for that key and as many rows for the location as before.
C1_OneRowPerDay ==
    /\ [](UniquePerDay(db) /\ UniquePerDay(disk))
    /\ [][\A id \in written' :
            RowsFor(db, id, today) # {} =>
                /\ Cardinality(RowsFor(db', id, today)) = 1
                /\ Cardinality(StatsOf(db', id)) = Cardinality(StatsOf(db, id))]_vars

\* C1 witness: a session update has just recorded a key that the committed
\* file already holds with another capacity, and the store has one row for it.
C1_Witness ==
    /\ lastOp = "session"
    /\ \E id \in written :
         \E old \in RowsFor(disk, id, today), new \in RowsFor(db, id, today) :
            /\ old.capacity_bytes # new.capacity_bytes
            /\ RowsFor(db, id, today) = {new}

DeltaMatchesPrior(d) ==
    \A r \in d.daily_stats :
        r.delta_bytes \in DeltaAgainst(d, r.location_id, r.day, r.capacity_bytes)

\* C2: every stored row's delta_bytes is its capacity_bytes minus that of
\* the row of the same location with the greatest earlier day, and 0 when
\* the location has no earlier row.
C2_DeltaAgainstMostRecentPriorDay == DeltaMatchesPrior(db) /\ DeltaMatchesPrior(disk)

\* C2 witness: a location with rows for day 1 and day 3 and none for day 2
\* (a skipped day), whose day-3 delta is the change since day 1 and is not 0.
C2_Witness ==
    \E r1, r3 \in db.daily_stats :
        /\ r1.location_id = r3.location_id
        /\ r1.day = 1
        /\ r3.day = 3
        /\ RowsFor(db, r1.location_id, 2) = {}
        /\ r3.delta_bytes = r3.capacity_bytes - r1.capacity_bytes
        /\ r3.delta_bytes # 0

\* the row update_today_stats stores for a location when its probe finds
\* `found`, given the rows the store held before
Recorded(d, location, day, found) ==
    LET size == Compute(found, location.kind)
    IN {[location_id |-> location.location_id, day |-> day,
         capacity_bytes |-> size.value, delta_bytes |-> delta] :
          delta \in DeltaAgainst(d, location.location_id, day, size.value)}

\* the probe results that do not raise for a location of this kind
Readable(kind) == {found \in FsStates : ~Compute(found, kind).raised}

\* C3: a session update that re-records today's row of a location leaves one
\* row for today, whose capacity_bytes is a reading of the probe and whose
\* delta_bytes is that reading minus the capacity of the most recent row
\* before today (0 without one), not minus the capacity of the replaced row.
C3_RerecordKeepsBaseline ==
    [][lastOp' = "session" =>
         \A i \in DOMAIN locations :
           LET id == locations[i].location_id
           IN (id \in written' /\ RowsFor(db, id, today) # {}) =>
                \E found \in Readable(locations[i].kind) :
                  \E row \in Recorded(db, locations[i], today, found) :
                    RowsFor(db', id, today) = {row}]_vars

\* C3 witness: a session update replaced today's row (the committed file
\* still holds the replaced capacity) and the new delta is the new capacity
\* minus the prior day's, which differs from new minus replaced.
C3_Witness ==
    /\ lastOp = "session"
    /\ \E id \in written :
         \E old \in RowsFor(disk, id, today), new \in RowsFor(db, id, today) :
            /\ RowsBefore(db, id, today) # {}
            /\ new.delta_bytes \in DeltaAgainst(db, id, today, new.capacity_bytes)
            /\ new.delta_bytes # new.capacity_bytes - old.capacity_bytes
            /\ new.delta_bytes # 0

NoOrphanStat(d) == \A r \in d.daily_stats : r.location_id \in LocationIds(d)

\* C4: every stored row belongs to a location that is in the locations table
\* and, while the program runs, in the dict the ticks iterate over; so a
\* removed location has no row, and no handler writes one for it afterwards.
C4_NoStatWithoutLocation ==
    /\ NoOrphanStat(db)
    /\ running => \A r \in db.daily_stats : r.location_id \in Keys(locations)

\* C4 witness: a location that the committed file still holds with rows has
\* been removed, another location is still registered, and a tick has run
\* since and recorded a row.
C4_Witness ==
    /\ running
    /\ lastOp \in {"daily", "session"}
    /\ written # {}
    /\ \E id \in LocationIds(disk) \ LocationIds(db) :
          /\ StatsOf(disk, id) # {}
          /\ StatsOf(db, id) = {}

\* C5: removal is all or nothing in the connection and in the committed
\* file: neither ever holds a row without its location; a location's rows
\* vanish from the connection while its location row stays only when the
\* connection falls back to the committed file; the step that removes a
\* location removes all its rows; and the committed file only ever changes
\* to the connection's state at the end of a handler.
C5_RemovalIsAtomic ==
    /\ [](NoOrphanStat(db) /\ NoOrphanStat(disk))
    /\ [][/\ disk' = disk \/ disk' = db
          /\ \A id \in LocationIds(db) :
               /\ id \notin LocationIds(db') => StatsOf(db', id) = {}
               /\ (id \in LocationIds(db') /\ StatsOf(db, id) # {}
                     /\ StatsOf(db', id) = {}) => db' = disk
          /\ \A id \in LocationIds(disk) :
               id \notin LocationIds(disk') => StatsOf(disk', id) = {}]_vars

\* C5 witness: a removal is done and not yet committed: the connection holds
\* neither the location nor its rows, the committed file holds both.
C5_Witness ==
    /\ running
    /\ dirty
    /\ lastOp = "none"
    /\ pending = 0
    /\ \E id \in LocationIds(disk) \ LocationIds(db) :
          /\ StatsOf(disk, id) # {}
          /\ StatsOf(db, id) = {}
          /\ id \notin Keys(locations)

\* C6: remove with no registered location to remove (the combo box is empty)
\* reports NotFound and changes neither the store, the committed file, the
\* dirty flag nor the dict.
C6_RemoveUnknownReportsNotFound ==
    [][lastOp' = "remove_none" =>
         /\ message' = "NotFound"
         /\ UNCHANGED <<db, disk, dirty, locations>>]_vars

NamedAndRooted(d) == \A l \in d.locations : l.name # "" /\ l.path # ""

\* C7: no location with an empty name or path is ever in the store, the
\* committed file or the dict, and the add that is turned away with the
\* warning box changes neither of them nor the dirty flag nor the id counter.
C7_EmptyAddIsRejected ==
    /\ [](/\ NamedAndRooted(db)
          /\ NamedAndRooted(disk)
          /\ \A i \in DOMAIN locations :
               locations[i].name # "" /\ locations[i].path # "")
    /\ [][message' = "warning" =>
            /\ UNCHANGED <<db, disk, dirty, locations>>
            /\ written' = {}]_vars

\* C7 witness: an add with an empty name or path has just been turned away
\* while a location was registered and the store was clean.
C7_Witness ==
    /\ message = "warning"
    /\ locations # <<>>
    /\ ~dirty
    /\ db = disk

\* C8: in a tick, a location whose root path cannot be accessed gets no row
\* created or changed, whatever its kind, and stays registered.
C8_UnreachableIsSkipped ==
    [][lastOp' \in {"daily", "session"} =>
         \A probe \in Probes(locations) :
           (PollTickWith(probe) \/ DailyTickWith(probe) \/ SessionTickWith(probe)) =>
             \A id \in Keys(locations) :
               ~probe[id].exists =>
                  /\ StatsOf(db', id) = StatsOf(db, id)
                  /\ id \in Keys(locations')]_vars

\* C9: after a poll, daily-check or session-update tick, also one in which
\* probes raised, every location whose probe did not raise has a row for
\* today; a session update has probed every location; every row the tick
\* recorded is the one its own reading and its own earlier rows give; and the
\* rows of the locations it did not record are untouched.
C9_ProbeFailureDoesNotBlockOthers ==
    [][lastOp' \in {"daily", "session"} =>
         /\ failed' \cup written' \subseteq Keys(locations')
         /\ failed' \cap written' = {}
         /\ lastOp' = "session" => failed' \cup written' = Keys(locations')
         /\ \A i \in DOMAIN locations' :
              LET location == locations'[i]
                  id == location.location_id
              IN /\ id \notin failed' => RowsFor(db', id, today) # {}
                 /\ id \in written' =>
                      \E found \in Readable(location.kind) :
                        \E row \in Recorded(db, location, today, found) :
                          StatsOf(db', id) =
                            (StatsOf(db, id) \ RowsFor(db, id, today)) \cup {row}
                 /\ id \notin written' => StatsOf(db', id) = StatsOf(db, id)]_vars

\* C9 witness: a tick in which the probe of one location raised and a
\* location that comes after it in the dict got its row recorded.
C9_Witness ==
    /\ lastOp \in {"daily", "session"}
    /\ \E i, j \in DOMAIN locations :
          /\ i < j
          /\ locations[i].location_id \in failed
          /\ locations[j].location_id \in written
          /\ RowsFor(db, locations[j].location_id, today) # {}
          /\ RowsFor(db, locations[i].location_id, today) = {}

\* The daily timer keeps firing (every 60 s) and, the premise of C10, the
\* probes of its tick find their paths.
DailyTickReachable ==
    \E probe \in Probes(locations) :
        /\ \A id \in Keys(locations) : probe[id].exists
        /\ DailyTickWith(probe)

FairSpec == Init /\ [][NextFair]_vars /\ WF_vars(DailyTickReachable)

\* C10: a registered location without a row for today gets one (unless it is
\* removed or the process ends first) from the daily check alone, and every
\* daily check leaves each location whose probe did not raise with a row for
\* today.
C10_DailyCheckBackfills ==
    /\ \A id \in LocationIdSpace :
         (running /\ id \in Keys(locations) /\ RowsFor(db, id, today) = {})
           ~> (RowsFor(db, id, today) # {} \/ id \notin Keys(locations) \/ ~running)
    /\ [][lastOp' = "daily" =>
            \A id \in Keys(locations') \ failed' : RowsFor(db', id, today) # {}]_vars

\* C10 witness: the day has changed since the last committed row of a
\* location, and a daily check (no session update) has just recorded its row
\* for today.
C10_Witness ==
    /\ lastOp = "daily"
    /\ \E id \in written :
          /\ RowsFor(db, id, today) # {}
          /\ RowsFor(disk, id, today) = {}
          /\ RowsBefore(disk, id, today) # {}

\* C11: a daily check, also the one that ends a poll (and the poll that ends
\* an add), leaves every row that already exists for today as it is, whatever
\* the probes read: neither capacity_bytes nor delta_bytes changes, and the
\* location is not among those the handler recorded.
C11_DailyCheckKeepsTodayRow ==
    [][lastOp' = "daily" =>
         \A id \in LocationIds(db) :
            RowsFor(db, id, today) # {} =>
               /\ RowsFor(db', id, today) = RowsFor(db, id, today)
               /\ id \notin written']_vars

\* C11 witness: a daily check has recorded one location and passed over
\* another, whose row for today is still the committed one.
C11_Witness ==
    /\ lastOp = "daily"
    /\ written # {}
    /\ \E id \in Keys(locations) \ (written \cup failed) :
          /\ RowsFor(db, id, today) # {}
          /\ RowsFor(db, id, today) = RowsFor(disk, id, today)

\* C12: a timer flush that finds the store clean writes nothing and changes
\* nothing; every change of the store leaves it dirty; a flush whose commit
\* returns makes the committed file equal to the store and clears the flag;
\* and a flush right after it changes nothing, whether or not a commit would
\* succeed.
C12_FlushIsIdempotent ==
    [][/\ (running /\ running' /\ db' # db) => dirty'
       /\ (running' /\ lastOp' = "clean") =>
             /\ ~dirty
             /\ UNCHANGED <<db, disk, dirty>>
       /\ (running' /\ lastOp' = "commit") =>
             /\ dirty
             /\ ~dirty'
             /\ disk' = db
             /\ db' = db
             /\ \A commit_ok \in BOOLEAN :
                  CommitIfDirty(db', disk', dirty', commit_ok) = <<disk', dirty'>>]_vars

\* C12 witness: a timer flush has just committed recorded rows.
C12_Witness ==
    /\ running
    /\ lastOp = "commit"
    /\ ~dirty
    /\ db = disk
    /\ db.daily_stats # {}

C14_FailedFlushKeepsPending ==
    [][lastOp' = "commit_raised" =>
          /\ dirty'
          /\ db' = db
          /\ disk' = disk]_vars

\* C19: whenever the dirty flag is false the store equals the committed
\* file; every handler that adds or removes a location or records a row
\* leaves the flag true; and while the process lives the flag only goes from
\* true to false in a commit_if_dirty whose commit returned.
C19_CleanMeansPersisted ==
    /\ [](~dirty => db = disk)
    /\ [][/\ (running /\ running' /\ (db' # db \/ written' # {})) => dirty'
          /\ (running' /\ dirty /\ ~dirty') =>
                (lastOp' = "commit" /\ disk' = db /\ db' = db)]_vars

\* C19 witness: a flush found the flag false on a store that holds locations
\* and rows, and the store equals the committed file.
C19_Witness ==
    /\ running
    /\ lastOp = "clean"
    /\ ~dirty
    /\ db.daily_stats # {}
    /\ db = disk

\* C20: a handler that records rows changes, among the rows, only those
\* keyed (location_id, today) of the locations it recorded: every other row
\* stays, no other row appears, and a tick (no location is added) leaves the
\* locations table and the dict as they are.
C20_RecordTouchesOneRow ==
    [][lastOp' \in {"daily", "session"} =>
         /\ \A r \in db.daily_stats :
               (r.location_id \notin written' \/ r.day # today) => r \in db'.daily_stats
         /\ \A r \in db'.daily_stats \ db.daily_stats :
               r.location_id \in written' /\ r.day = today
         /\ db'.seq = db.seq =>
               (db'.locations = db.locations /\ locations' = locations)]_vars

\* C20 witness: a tick has recorded today's row of a location that has a row
\* for an earlier day, while another location with rows was not recorded.
C20_Witness ==
    /\ lastOp \in {"daily", "session"}
    /\ \E id \in written, other \in Keys(locations) \ written :
          /\ RowsBefore(db, id, today) # {}
          /\ RowsFor(db, id, today) # {}
          /\ StatsOf(db, other) # {}

\* the minutes the timers are to run with: the file's value where it is a
\* number, the default of the key otherwise
Fallback(file, key) ==
    IF file.state = "object" /\ key \in DOMAIN file.data
         /\ file.data[key].type = "number"
    THEN file.data[key].value
    ELSE Defaults[key]

\* C17: whatever cs_config.json holds (no file, a file that does not parse,
\* keys missing or with a value that is no number), the start gets to its end
\* with the process running and every timer started with the file's minutes
\* or, for an affected key, the default.
C17_StartupNeverAborts ==
    [][\A file \in ConfigFiles :
         StartWith(file) =>
            /\ running'
            /\ \A key \in ConfigKeys :
                  TimerStart(Load(file).data[key]) =
                      Returned(Fallback(file, key) * 60 * 1000)]_vars

\* the rows of a series whose day, as text, lies between two texts
RowsBetween(stats, first, last) ==
    SelectSeq(stats, LAMBDA row : ~TextLess(row.day, first) /\ ~TextLess(last, row.day))

\* 2024-03-11 is a Monday, and so is every day a multiple of 7 days from it;
\* the Monday of a date's week is the one among the date and the 6 before it
MondayOf(d) ==
    CHOOSE m \in {PlusDays(d, 0 - k) : k \in 0..6} :
        (ToOrdinal(m) - ToOrdinal(Date(2024, 3, 11))) % 7 = 0

\* C15: with the filter "Tyden" (week), filtered_stats returns the rows of
\* its input whose day lies from the Monday of the selected date's week
\* through the Sunday after it, both included, in the input's order; for
\* 2024-03-14 these are the rows from 2024-03-11 through 2024-03-17.
C15_WeekSlice ==
    shown.period = "Tyden" =>
        /\ shown.filtered =
              RowsBetween(shown.stats, IsoFormat(MondayOf(shown.selected)),
                          IsoFormat(PlusDays(MondayOf(shown.selected), 6)))
        /\ shown.selected = Date(2024, 3, 14) =>
              shown.filtered =
                RowsBetween(shown.stats,
                            <<"2", "0", "2", "4", "-", "0", "3", "-", "1", "1">>,
                            <<"2", "0", "2", "4", "-", "0", "3", "-", "1", "7">>)

\* C15 witness: the week of Thursday 2024-03-14 over a series with rows on
\* the Sunday before, the Monday and the Sunday of that week: the two
\* boundary rows are returned, the row of 2024-03-10 is not.
C15_Witness ==
    /\ shown.period = "Tyden"
    /\ shown.selected = Date(2024, 3, 14)
    /\ Len(shown.stats) = 3
    /\ shown.stats[1].day = IsoFormat(Date(2024, 3, 10))
    /\ Len(shown.filtered) = 2
    /\ shown.filtered[1].day = IsoFormat(Date(2024, 3, 11))
    /\ shown.filtered[2].day = IsoFormat(Date(2024, 3, 17))

\* C16: with the filter "Vse" (all) filtered_stats returns its input as it
\* is, whatever date is selected; with every filter the result is a run of
\* consecutive rows of the input in the input's order; and a call changes
\* neither the input series nor the store.
C16_SliceIsPure ==
    /\ [](/\ shown.period = "Vse" => shown.filtered = shown.stats
          /\ \E i \in 1..(Len(shown.stats) + 1) :
                \E j \in (i - 1)..Len(shown.stats) :
                   shown.filtered = SubSeq(shown.stats, i, j))
    /\ [][shown' # shown =>
            /\ shown'.stats = shown.stats
            /\ UNCHANGED <<db, disk, dirty, locations>>]_vars

\* C16 witness: a month filter over three rows has dropped the first and
\* returned the other two in their order.
C16_Witness ==
    /\ shown.period = "Mesic"
    /\ Len(shown.stats) = 3
    /\ shown.filtered = SubSeq(shown.stats, 2, 3)

\* the location a slot is recording
Recording(pos) == Head(pos.todo).location_id

\* C18: from the statement that reads the baseline of a record (today's row,
\* then the most recent row before today) to the statement that upserts,
\* nothing else changes the store: what the slot has read is still what the
\* store holds when it writes, at most one slot is inside
\* update_today_stats, the only change of the store while one is inside is
\* its own upsert, and every stored delta agrees with the rows before it.
C18_RecordIsAtomic ==
    /\ [](/\ \A kind \in TickKinds :
               LET pos == inflight[kind]
               IN pos.at \in {"probe", "write"} =>
                    /\ pos.existing = StatForDay(db, Recording(pos), pos.day)
                    /\ pos.at = "write" =>
                          pos.previous = LastStatBeforeDay(db, Recording(pos), pos.day)
          /\ \A kind, other \in TickKinds :
               (inflight[kind].at # "idle" /\ inflight[other].at # "idle") => kind = other
          /\ DeltaMatchesPrior(db))
    /\ [][(~EventLoopIdle /\ (db' # db \/ locations' # locations)) =>
            \E kind \in TickKinds :
               /\ inflight[kind].at = "write"
               /\ inflight'[kind].at = "loop"
               /\ locations' = locations
               /\ StatsOf(db', Recording(inflight[kind])) # {}
               /\ \A r \in db.daily_stats :
                     (r.location_id # Recording(inflight[kind])
                        \/ r.day # inflight[kind].day) => r \in db'.daily_stats]_vars

\* C18 witness: a session update is about to replace today's row of a
\* location that has an earlier row, while the question box of a removal is
\* open.
C18_Witness ==
    /\ inflight["session"].at = "write"
    /\ inflight["session"].existing # {}
    /\ inflight["session"].previous # {}
    /\ pending # 0

\* C21: while the process runs, the ids of the dict the ticks iterate over
\* are the ids of the locations table, with no id twice in the dict; and a
\* tick deals with exactly these: a session update probes every one of them,
\* a daily check every one that has no row for today, and neither touches
\* an id outside them.
C21_DictMirrorsLocationsTable ==
    /\ [](running =>
            /\ Keys(locations) = LocationIds(db)
            /\ Len(locations) = Cardinality(LocationIds(db)))
    /\ [][lastOp' \in {"daily", "session"} =>
            /\ written' \cup failed' \subseteq LocationIds(db')
            /\ lastOp' = "session" => written' \cup failed' = LocationIds(db')
            /\ \A id \in LocationIds(db') :
                  id \in written' \cup failed' \/ RowsFor(db, id, today) # {}]_vars

\* C21 witness: two locations were added, one of them was removed, and a
\* session update has just probed the one that is left and nothing else.
C21_Witness ==
    /\ running
    /\ lastOp = "session"
    /\ db.seq = 2
    /\ Cardinality(LocationIds(db)) = 1
    /\ Keys(locations) = LocationIds(db)
    /\ written \cup failed = LocationIds(db)
====
